---- MODULE Spec2Model ----
(***************************************************************************)
(* A model of the MRC pipeline: the mode dispatcher (main.py), the BM25    *)
(* sparse retriever (src/retrieval/bm25_retrieval_base.py) and the train   *)
(* feature preparation (src/magic_box/preprocess.py), and the option       *)
(* groups (src/arguments.py).                                              *)
(*                                                                         *)
(* Four specifications share the module, one per component:                *)
(*   SpecMain        the entry point inner_main                            *)
(*   SpecRetrieval   a BM25SparseRetrieval instance and the data directory *)
(*   SpecPreprocess  prepare_train_features and prepare_validation_features*)
(*                   (encoder and T5 variants)                             *)
(*   SpecArguments   construction of the dataclasses of arguments.py       *)
(***************************************************************************)
EXTENDS Integers, Sequences, FiniteSets, TLC

VARIABLES
    \* ---- main.py
    cfg,            \* the DictConfig hydra hands to inner_main
    main_pc,        \* "start" before inner_main runs, "done" after it returned
    calls,          \* the mode routines invoked, in order, with their arguments
    stdout,         \* lines printed by inner_main
    environ,        \* os.environ entries written by inner_main
    main_exc,       \* the exception inner_main ended with, "none" on normal return
    \* ---- bm25_retrieval_base.py
    wiki,           \* the texts of the corpus JSON values, in file order
    self,           \* the BM25SparseRetrieval instance: contexts, ids, bm25
    files,          \* the data directory: pickle name -> persisted index or NoFile
    last,           \* the operation performed last, with its arguments
    ret,            \* what that operation returned or raised
    tokenized,      \* the texts handed to tokenize_fn during that operation
    scored,         \* the number of bm25.get_scores calls during that operation
    \* ---- preprocess.py
    setting,        \* tokenizer / dataset_args / variant the closure captured
    examples,       \* the batch handed to prepare_train_features
    features,       \* tokenized_examples: one record per feature
    start_positions,
    end_positions,
    example_id,     \* tokenized_examples["example_id"] of the validation sub-mode
    prep_pc,        \* "start", "done" or "raised" (train), "validated" (validation)
    prep_exc,       \* the exception the labelling loop ended with, "none" otherwise
    \* ---- arguments.py
    call,           \* the class being constructed and the keyword arguments given
    instance,       \* the constructed object: field name -> value
    args_pc,        \* "start" before the constructor runs, "done" after it
    args_exc        \* the exception the constructor raised, "none" otherwise

mainVars == <<cfg, main_pc, calls, stdout, environ, main_exc>>
retrVars == <<wiki, self, files, last, ret, tokenized, scored>>
prepVars == <<setting, examples, features, start_positions, end_positions,
              example_id, prep_pc, prep_exc>>
argVars == <<call, instance, args_pc, args_exc>>
vars == <<mainVars, retrVars, prepVars, argVars>>

(***************************************************************************)
(* Helpers on sequences.                                                   *)
(***************************************************************************)
Range(s) == {s[i] : i \in 1..Len(s)}

Min(a, b) == IF a <= b THEN a ELSE b

Max(a, b) == IF a >= b THEN a ELSE b

\* All sequences over S of length lo..hi.
SeqsOf(S, lo, hi) == UNION {[1..n -> S] : n \in lo..hi}

(***************************************************************************)
(* Placeholders for the components a specification does not run.           *)
(***************************************************************************)
RetrIdle ==
    /\ wiki = <<>>
    /\ self = [state |-> "idle"]
    /\ files = <<>>
    /\ last = [op |-> "idle"]
    /\ ret = [kind |-> "none"]
    /\ tokenized = <<>>
    /\ scored = 0

PrepIdle ==
    /\ setting = [variant |-> "idle"]
    /\ examples = <<>>
    /\ features = <<>>
    /\ start_positions = <<>>
    /\ end_positions = <<>>
    /\ example_id = <<>>
    /\ prep_pc = "idle"
    /\ prep_exc = "none"

ArgsIdle ==
    /\ call = [cls |-> "none"]
    /\ instance = <<>>
    /\ args_pc = "idle"
    /\ args_exc = "none"

(***************************************************************************)
(* main.py                                                                 *)
(***************************************************************************)
RecognizedModes == {"model_train", "hyperparameter_tune", "retrieval_train", "inference"}

\* Values of cfg.mode no branch of inner_main tests for.
UnrecognizedModes == {"dense_train", "eval"}

\* Number of distinct values each configuration group is drawn from.
NGroupValues == 2

Group(name) == [group : {name}, v : 1..NGroupValues]

Configs ==
    [mode    : RecognizedModes \cup UnrecognizedModes,
     project : [group : {"project"}, name : {"mrc", "odqa"}],
     model   : Group("model"),
     data    : Group("data"),
     train   : Group("train"),
     hp      : Group("hp"),
     wandb   : [entity : {"team"}, project : {"mrc", "retrieval"}]]

Placeholder == "dense retrieval train"

\* A mutant of Dispatch: the tuning branch hands over the train group.
DispatchTrainGroupToHp(c) ==
    IF c.mode = "model_train"
    THEN <<[routine |-> "train", args |-> <<c.project, c.model, c.data, c.train>>]>>
    ELSE IF c.mode = "hyperparameter_tune"
    THEN <<[routine |-> "hp_optimizing", args |-> <<c.project, c.model, c.data, c.train>>]>>
    ELSE IF c.mode = "retrieval_train"
    THEN <<>>
    ELSE IF c.mode = "inference"
    THEN <<[routine |-> "inference", args |-> <<c.model, c.data>>]>>
    ELSE <<>>

\* The if/elif chain of inner_main: the routines it calls for configuration c.
Dispatch(c) ==
    IF c.mode = "model_train"
    THEN <<[routine |-> "train", args |-> <<c.project, c.model, c.data, c.train>>]>>
    ELSE IF c.mode = "hyperparameter_tune"
    THEN <<[routine |-> "hp_optimizing", args |-> <<c.project, c.model, c.data, c.hp>>]>>
    ELSE IF c.mode = "retrieval_train"
    THEN <<>>
    ELSE IF c.mode = "inference"
    THEN <<[routine |-> "inference", args |-> <<c.model, c.data>>]>>
    ELSE <<>>   \* no else branch: the chain falls through

\* What inner_main prints: the banner, and the placeholder of retrieval_train.
Printed(c) ==
    <<[line |-> "Start", name |-> c.project.name]>>
    \o (IF c.mode = "retrieval_train"
        THEN <<[line |-> Placeholder, name |-> ""]>> ELSE <<>>)

MainInit ==
    /\ cfg \in Configs
    /\ main_pc = "start"
    /\ calls = <<>>
    /\ stdout = <<>>
    /\ environ = [k \in {} |-> ""]
    /\ main_exc = "none"

MainIdle ==
    /\ cfg = [mode |-> "none"]
    /\ main_pc = "idle"
    /\ calls = <<>>
    /\ stdout = <<>>
    /\ environ = [k \in {} |-> ""]
    /\ main_exc = "none"

inner_main ==
    /\ main_pc = "start"
    /\ stdout' = Printed(cfg)
    /\ environ' = [k \in {"WANDB_ENTITY", "WANDB_PROJECT"} |->
                      IF k = "WANDB_ENTITY" THEN cfg.wandb.entity ELSE cfg.wandb.project]
    /\ calls' = Dispatch(cfg)
    /\ main_exc' = "none"
    /\ main_pc' = "done"
    /\ UNCHANGED <<cfg, retrVars, prepVars, argVars>>

(***************************************************************************)
(* bm25_retrieval_base.py                                                  *)
(*                                                                         *)
(* Python values whose type the code depends on are tagged: a str is       *)
(* [ty |-> "str", s |-> ...], an int is [ty |-> "int", n |-> ...].         *)
(***************************************************************************)
PyStr(t) == [ty |-> "str", s |-> t, n |-> 0]

\* Passage texts a corpus file may hold, and the questions asked.
Texts == {"a b", "b b c"}

\* "b" occurs in both texts, "z" in none (every score ties at zero).
Questions == {"b", "z"}

\* tokenize_fn, the injected tokenizer: whitespace splitting of the texts above.
tokenize_fn(t) ==
    CASE t = "a b"   -> <<"a", "b">>
      [] t = "b b c" -> <<"b", "b", "c">>
      [] t = "b"     -> <<"b">>
      [] t = "z"     -> <<"z">>

\* Longest corpus file (number of JSON values), largest topk, largest dataset.
MaxWiki == 3

MaxTopk == 2

MaxDataset == 2

Corpora == SeqsOf(Texts, 1, MaxWiki)

PickleNames == {"bm25api.bin"}

\* self.bm25 = None, and an absent file, are the unbuilt index.
None == [built |-> FALSE, corpus |-> <<>>]

NoFile == None

RECURSIVE DedupFrom(_, _)
DedupFrom(w, acc) ==
    IF w = <<>> THEN acc
    ELSE DedupFrom(Tail(w), IF Head(w) \in Range(acc) THEN acc ELSE Append(acc, Head(w)))

\* A mutant of Dedup: no deduplication at all.
DedupKeepAll(w) == w

\* list(dict.fromkeys(texts)): each text once, in order of first insertion.
Dedup(w) == DedupFrom(w, <<>>)

\* BM25SparseRetrieval.__init__ on a corpus file whose values hold the texts w.
NewInstance(w) ==
    LET c == Dedup(w) IN
    [contexts |-> c,
     ids      |-> [i \in 1..Len(c) |-> i - 1],
     bm25     |-> None]

\* BM25Okapi(tokenized_contexts): the index keeps the tokenized corpus.
BM25Okapi(tokenized_contexts) == [built |-> TRUE, corpus |-> tokenized_contexts]

RECURSIVE Count(_, _)
Count(tok, doc) ==
    IF doc = <<>> THEN 0
    ELSE (IF Head(doc) = tok THEN 1 ELSE 0) + Count(tok, Tail(doc))

RECURSIVE Overlap(_, _)
Overlap(query, doc) ==
    IF query = <<>> THEN 0 ELSE Count(Head(query), doc) + Overlap(Tail(query), doc)

\* bm25.get_scores(query): one score per indexed passage.  The BM25 weight is
\* abstracted to the number of occurrences of the query terms in the passage.
get_scores(bm25, query) ==
    [i \in 1..Len(bm25.corpus) |-> Overlap(query, bm25.corpus[i])]

\* The position that sorts first among `left`: highest score, ties by lowest
\* position (lowFirst) or by highest position.
Best(scores, left, lowFirst) ==
    CHOOSE i \in left :
        \A j \in left \ {i} :
            \/ scores[i] > scores[j]
            \/ scores[i] = scores[j] /\ (IF lowFirst THEN i < j ELSE i > j)

RECURSIVE SortDesc(_, _, _)
SortDesc(scores, left, lowFirst) ==
    IF left = {} THEN <<>>
    ELSE LET b == Best(scores, left, lowFirst)
         IN <<b>> \o SortDesc(scores, left \ {b}, lowFirst)

\* np.argsort(-raw_doc_scores): 1-based positions by descending score, stable.
ArgsortNeg(scores) == SortDesc(scores, DOMAIN scores, TRUE)

\* np.argsort(scores)[::-1]: ascending stable sort, reversed.
ArgsortReversed(scores) == SortDesc(scores, DOMAIN scores, FALSE)

Take(s, k) == SubSeq(s, 1, Min(k, Len(s)))

\* bm25.get_top_n(query, documents, n) of rank_bm25: the documents themselves.
get_top_n(bm25, query, documents, n) ==
    IF Len(bm25.corpus) # Len(documents)
    THEN [kind |-> "raise", exc |-> "AssertionError", docs |-> <<>>]
    ELSE LET order == Take(ArgsortReversed(get_scores(bm25, query)), n)
         IN [kind |-> "return", exc |-> "none",
             docs |-> [i \in 1..Len(order) |-> PyStr(documents[order[i]])]]

\* get_relevant_doc(query, k): (doc_scores[:k], doc_list) or an exception.
get_relevant_doc(obj, query, k) ==
    IF ~obj.bm25.built
    THEN [kind |-> "raise", exc |-> "AttributeError", doc_scores |-> <<>>, doc_list |-> <<>>]
    ELSE LET tokenized_query == tokenize_fn(query)
             raw_doc_scores == get_scores(obj.bm25, tokenized_query)
             desc == ArgsortNeg(raw_doc_scores)
             doc_scores == [i \in 1..Len(desc) |-> raw_doc_scores[desc[i]]]
             top == get_top_n(obj.bm25, tokenized_query, obj.contexts, k)
         IN IF top.kind = "raise"
            THEN [kind |-> "raise", exc |-> top.exc, doc_scores |-> <<>>, doc_list |-> <<>>]
            ELSE [kind |-> "return", exc |-> "none",
                  doc_scores |-> Take(doc_scores, k), doc_list |-> top.docs]

Raise(e, toks, n) ==
    [ret |-> [kind |-> "raise", exc |-> e], tokenized |-> toks, scored |-> n]

\* The print loop and the final comprehension of the single-query branch, from
\* i on: the texts self.contexts[doc_indices[i]], or the exception raised by
\* doc_scores[i] or by indexing self.contexts with doc_indices[i].
RECURSIVE HitTexts(_, _, _, _)
HitTexts(obj, r, i, topk) ==
    IF i >= topk THEN [exc |-> "none", texts |-> <<>>]
    ELSE IF i + 1 > Len(r.doc_scores) \/ i + 1 > Len(r.doc_list)
    THEN [exc |-> "IndexError", texts |-> <<>>]
    ELSE IF r.doc_list[i + 1].ty # "int"
    THEN [exc |-> "TypeError", texts |-> <<>>]
    ELSE IF r.doc_list[i + 1].n + 1 > Len(obj.contexts)
    THEN [exc |-> "IndexError", texts |-> <<>>]
    ELSE LET rest == HitTexts(obj, r, i + 1, topk)
         IN [exc |-> rest.exc,
             texts |-> IF rest.exc = "none"
                       THEN <<obj.contexts[r.doc_list[i + 1].n + 1]>> \o rest.texts
                       ELSE <<>>]

\* retrieve, isinstance(query_or_dataset, str) branch.
RetrieveStr(obj, query, topk) ==
    LET r == get_relevant_doc(obj, query, topk) IN
    IF r.kind = "raise" THEN Raise(r.exc, <<query>>, IF obj.bm25.built THEN 1 ELSE 0)
    ELSE LET hits == HitTexts(obj, r, 0, topk)
         IN IF hits.exc # "none" THEN Raise(hits.exc, <<query>>, 1)
            ELSE [ret |-> [kind |-> "return", form |-> "pair",
                           scores |-> r.doc_scores, texts |-> hits.texts],
                  tokenized |-> <<query>>, scored |-> 1]

\* " ".join(xs): a TypeError unless every element is a str.
Join(xs) ==
    IF \E i \in 1..Len(xs) : xs[i].ty # "str"
    THEN [exc |-> "TypeError", joined |-> <<>>]
    ELSE [exc |-> "none", joined |-> [i \in 1..Len(xs) |-> xs[i].s]]

\* The first position of rs holding a raised exception, 0 when none does.
FirstRaise(rs) ==
    LET bad == {j \in 1..Len(rs) : rs[j].kind = "raise"}
    IN IF bad = {} THEN 0 ELSE CHOOSE j \in bad : \A m \in bad : j <= m

\* tmp, the record built for example j from its get_relevant_doc result r.
Row(ds, j, r) ==
    LET doc_indices == r.doc_list
        base == [question   |-> ds.rows[j].question,
                 id         |-> ds.rows[j].id,
                 context_id |-> doc_indices,
                 context    |-> Join(doc_indices).joined,
                 labeled    |-> ds.labeled]
    IN IF ds.labeled
       THEN [original_context |-> ds.rows[j].context,
             answers |-> ds.rows[j].answers] @@ base
       ELSE base

\* retrieve, isinstance(query_or_dataset, Dataset) branch: get_relevant_doc per
\* question (up to the first exception), then one record per example.
RetrieveDataset(obj, ds, topk) ==
    LET M == Len(ds.rows)
        rs == [j \in 1..M |-> get_relevant_doc(obj, ds.rows[j].question, topk)]
        stop == FirstRaise(rs)
        asked == [j \in 1..(IF stop = 0 THEN M ELSE stop) |-> ds.rows[j].question]
    IN IF stop # 0
       THEN Raise(rs[stop].exc, asked, IF obj.bm25.built THEN stop ELSE 0)
       ELSE IF \E j \in 1..M : Join(rs[j].doc_list).exc # "none"
       THEN Raise("TypeError", asked, M)
       ELSE [ret |-> [kind |-> "return", form |-> "table",
                      rows |-> [j \in 1..M |-> Row(ds, j, rs[j])]],
             tokenized |-> asked, scored |-> M]

\* The two branches of retrieve that follow its assertion.
RetrieveBody(obj, q, topk) ==
    IF q.form = "str" THEN RetrieveStr(obj, q.query, topk)
    ELSE RetrieveDataset(obj, q.dataset, topk)

\* A mutant of Retrieve: the assertion on self.bm25 is missing.
RetrieveNoAssert(obj, q, topk) == RetrieveBody(obj, q, topk)

\* retrieve(query_or_dataset, topk): result, texts tokenized, scoring calls.
Retrieve(obj, q, topk) ==
    IF ~obj.bm25.built THEN Raise("AssertionError", <<>>, 0)
    ELSE RetrieveBody(obj, q, topk)

\* A mutant of SparseEmbedding: an existing file is ignored and rebuilt.
SparseEmbeddingAlwaysBuild(obj, fs, pickle_name) ==
    LET tokenized_contexts == [i \in 1..Len(obj.contexts) |-> tokenize_fn(obj.contexts[i])]
        built == BM25Okapi(tokenized_contexts)
    IN [bm25 |-> built, files |-> [fs EXCEPT ![pickle_name] = built],
        tokenized |-> obj.contexts]

\* get_sparse_embedding(pickle_name): the new self.bm25, the data directory
\* afterwards and the passages tokenized.
SparseEmbedding(obj, fs, pickle_name) ==
    IF fs[pickle_name] # NoFile
    THEN [bm25 |-> fs[pickle_name], files |-> fs, tokenized |-> <<>>]
    ELSE LET tokenized_contexts ==
                 [i \in 1..Len(obj.contexts) |-> tokenize_fn(obj.contexts[i])]
             built == BM25Okapi(tokenized_contexts)
         IN [bm25 |-> built, files |-> [fs EXCEPT ![pickle_name] = built],
             tokenized |-> obj.contexts]

\* The validation-style examples a dataset is cut from, in order.
ExampleRows ==
    <<[question |-> "b",   id |-> "mrc-0", context |-> "a b",
       answers |-> [text |-> <<"b">>, answer_start |-> <<2>>]],
      [question |-> "z",   id |-> "mrc-1", context |-> "c d",
       answers |-> [text |-> <<"d">>, answer_start |-> <<2>>]],
      [question |-> "b",   id |-> "mrc-2", context |-> "b b c",
       answers |-> [text |-> <<"c">>, answer_start |-> <<4>>]]>>

\* A Dataset: labeled ones carry the context and answers columns.
Datasets ==
    {[labeled |-> l, rows |-> SubSeq(ExampleRows, 1, m)] :
        l \in BOOLEAN, m \in 0..Min(MaxDataset, Len(ExampleRows))}

Queries ==
    {[form |-> "str", query |-> q, dataset |-> [labeled |-> FALSE, rows |-> <<>>]] :
        q \in Questions}
    \cup {[form |-> "Dataset", query |-> "", dataset |-> d] : d \in Datasets}

RetrInit ==
    /\ wiki \in Corpora
    /\ self = NewInstance(wiki)
    /\ files = [f \in PickleNames |-> NoFile]
    /\ last = [op |-> "__init__", topk |-> 0]
    /\ ret = [kind |-> "none"]
    /\ tokenized = <<>>
    /\ scored = 0

\* A new process: the corpus file may have changed, the data directory stays.
new_instance(w) ==
    /\ wiki' = w
    /\ self' = NewInstance(w)
    /\ last' = [op |-> "__init__", topk |-> 0]
    /\ ret' = [kind |-> "none"]
    /\ tokenized' = <<>>
    /\ scored' = 0
    /\ UNCHANGED <<files, mainVars, prepVars, argVars>>

get_sparse_embedding(pickle_name) ==
    LET r == SparseEmbedding(self, files, pickle_name) IN
    /\ self' = [self EXCEPT !.bm25 = r.bm25]
    /\ files' = r.files
    /\ last' = [op |-> "get_sparse_embedding", topk |-> 0, pickle_name |-> pickle_name]
    /\ ret' = [kind |-> "return", form |-> "None"]
    /\ tokenized' = r.tokenized
    /\ scored' = 0
    /\ UNCHANGED <<wiki, mainVars, prepVars, argVars>>

retrieve(q, topk) ==
    LET r == Retrieve(self, q, topk) IN
    /\ last' = [op |-> "retrieve", topk |-> topk, q |-> q, pre |-> self]
    /\ ret' = r.ret
    /\ tokenized' = r.tokenized
    /\ scored' = r.scored
    /\ UNCHANGED <<wiki, self, files, mainVars, prepVars, argVars>>

\* The environment removes a persisted index.
delete_file(pickle_name) ==
    /\ files[pickle_name] # NoFile
    /\ files' = [files EXCEPT ![pickle_name] = NoFile]
    /\ last' = [op |-> "delete", topk |-> 0, pickle_name |-> pickle_name]
    /\ ret' = [kind |-> "none"]
    /\ tokenized' = <<>>
    /\ scored' = 0
    /\ UNCHANGED <<wiki, self, mainVars, prepVars, argVars>>

InitRetrieval == MainIdle /\ RetrInit /\ PrepIdle /\ ArgsIdle

NextRetrieval ==
    \/ \E w \in Corpora : new_instance(w)
    \/ \E f \in PickleNames : get_sparse_embedding(f)
    \/ \E q \in Queries, k \in 0..MaxTopk : retrieve(q, k)
    \/ \E f \in PickleNames : delete_file(f)

SpecRetrieval == InitRetrieval /\ [][NextRetrieval]_vars

InitMain == MainInit /\ RetrIdle /\ PrepIdle /\ ArgsIdle

NextMain == inner_main

SpecMain == InitMain /\ [][NextMain]_vars

(***************************************************************************)
(* preprocess.py                                                           *)
(*                                                                         *)
(* Texts are sequences of words of WordLen characters separated by single  *)
(* spaces; the tokenizer is word level.  Token positions and character     *)
(* offsets are 0-based as in the code; TLA+ sequences are 1-based.         *)
(***************************************************************************)
\* Characters per word, words per question / context, and the lengths the
\* tokenizer truncates and pads to.  T5MaxLength stands for the 512 the T5
\* variant passes as max_length, scaled down so that truncation happens.
WordLen == 2

MaxQWords == 2

MaxCtxWords == 4

MaxSeqLength == 7

MaxStride == 1

T5MaxLength == 8

\* Character span [WordStart(i), WordEnd(i)) of word i (0-based) of a text.
WordStart(i) == i * (WordLen + 1)

WordEnd(i) == WordStart(i) + WordLen

\* len(text) of a text of n words.
TextLen(n) == IF n = 0 THEN 0 ELSE WordEnd(n - 1)

\* The tokenizer's special token ids, and the id of every ordinary word.
BertTokenizer == [cls_token_id |-> 2, sep_token_id |-> 3, pad_token_id |-> 0, word_id |-> 7]

T5Tokenizer == [eos_token_id |-> 1, pad_token_id |-> 0, word_id |-> 7]

\* sequence_ids() of a special or padding token (Python's None).
NoSeq == -1

\* q.lstrip(): leading whitespace of the question removed.
lstrip(q) == [q EXCEPT !.lead = 0]

\* One token of a feature.
Tok(id, s, e, sid) == [id |-> id, offset |-> <<s, e>>, seq |-> sid]

\* The tokens of the words lo..hi-1 (0-based) of a text starting `lead`
\* characters into its string, as sequence `sid` of the pair.
WordToks(lo, hi, lead, sid) ==
    [k \in 1..(hi - lo) |->
        Tok(BertTokenizer.word_id, lead + WordStart(lo + k - 1),
            lead + WordEnd(lo + k - 1), sid)]

Pads(n, id) == [k \in 1..n |-> Tok(id, 0, 0, NoSeq)]

\* The windows [lo, hi) of n context tokens when at most cap fit in a feature
\* and consecutive windows share `stride` tokens (return_overflowing_tokens).
RECURSIVE Windows(_, _, _, _)
Windows(start, n, cap, stride) ==
    LET stop == Min(start + cap, n)
    IN <<[lo |-> start, hi |-> stop]>>
       \o (IF stop = n THEN <<>> ELSE Windows(start + cap - stride, n, cap, stride))

\* Context tokens that fit beside the question and the three special tokens.
Capacity(st, q) == st.max_seq_length - q.nwords - 3

\* One feature of the encoder tokenizer for window w of example number
\* `sample`: "[CLS] question [SEP] context [SEP] [PAD]..." when padding on the
\* right, "[PAD]... [CLS] context [SEP] question [SEP]" otherwise.
EncoderFeature(st, ex, w, sample) ==
    LET t == BertTokenizer
        cls == <<Tok(t.cls_token_id, 0, 0, NoSeq)>>
        sep == <<Tok(t.sep_token_id, 0, 0, NoSeq)>>
        ctxSeq == IF st.pad_on_right THEN 1 ELSE 0
        qs == WordToks(0, ex.question.nwords, ex.question.lead, 1 - ctxSeq)
        cs == WordToks(w.lo, w.hi, 0, ctxSeq)
        body == IF st.pad_on_right
                THEN cls \o qs \o sep \o cs \o sep
                ELSE cls \o cs \o sep \o qs \o sep
        pad == Pads(st.max_seq_length - Len(body), t.pad_token_id)
        toks == IF st.pad_on_right THEN body \o pad ELSE pad \o body
    IN [input_ids |-> [k \in 1..Len(toks) |-> toks[k].id],
        offset_mapping |-> [k \in 1..Len(toks) |-> toks[k].offset],
        sequence_ids |-> [k \in 1..Len(toks) |-> toks[k].seq],
        token_type_ids |-> IF st.is_roberta THEN <<>>
                           ELSE [k \in 1..Len(toks) |-> Max(toks[k].seq, 0)],
        sample |-> sample]

\* tokenizer(questions, contexts, truncation of the context, stride,
\* return_overflowing_tokens, padding="max_length"): the features of the batch
\* in order, each with its overflow_to_sample_mapping entry.
RECURSIVE EncoderTokenize(_, _, _)
EncoderTokenize(st, exs, sample) ==
    IF sample >= Len(exs) THEN <<>>
    ELSE LET ex == exs[sample + 1]
             ws == Windows(0, ex.context.nwords, Capacity(st, ex.question), st.doc_stride)
         IN [k \in 1..Len(ws) |-> EncoderFeature(st, ex, ws[k], sample)]
            \o EncoderTokenize(st, exs, sample + 1)

\* len(extra_inputs[i]): the length of "질문: {q}  지문:".
ExtraTextLength(q) == 3 + 1 + q.lead + TextLen(q.nwords) + 2 + 3

\* The tokens of "질문: {q}  지문:" under the T5 tokenizer, whose offsets take in
\* the whitespace before a word: "질문:", the question words, "  지문:".
T5PrefixToks(q) ==
    LET head == <<Tok(T5Tokenizer.word_id, 0, 3, NoSeq)>>
        qs == [k \in 1..q.nwords |->
                  Tok(T5Tokenizer.word_id,
                      IF k = 1 THEN 3 ELSE 4 + q.lead + WordEnd(k - 2),
                      4 + q.lead + WordEnd(k - 1), NoSeq)]
        tail == <<Tok(T5Tokenizer.word_id, 4 + q.lead + TextLen(q.nwords),
                      ExtraTextLength(q), NoSeq)>>
    IN head \o qs \o tail

\* The tokens of " {c}" that follow the prefix in the full prompt.
T5ContextToks(q, c) ==
    LET P == ExtraTextLength(q)
    IN [k \in 1..c.nwords |->
           Tok(T5Tokenizer.word_id,
               IF k = 1 THEN P ELSE P + 1 + WordEnd(k - 2),
               P + 1 + WordEnd(k - 1), NoSeq)]

\* tokenizer(text, truncation=True, max_length, padding): the tokens cut to
\* max_length - 1, the end-of-sequence token, and the padding when asked for.
T5Encode(toks, max_length, padding) ==
    LET kept == SubSeq(toks, 1, Min(Len(toks), max_length - 1))
        body == kept \o <<Tok(T5Tokenizer.eos_token_id, 0, 0, NoSeq)>>
        all == IF padding
               THEN body \o Pads(max_length - Len(body), T5Tokenizer.pad_token_id)
               ELSE body
    IN [input_ids |-> [k \in 1..Len(all) |-> all[k].id],
        offset_mapping |-> [k \in 1..Len(all) |-> all[k].offset]]

\* tokenized_extras and tokenized_examples of the T5 variant for one example.
T5Feature(ex, sample) ==
    LET full == T5Encode(T5PrefixToks(ex.question) \o T5ContextToks(ex.question, ex.context),
                         T5MaxLength, TRUE)
        extra == T5Encode(T5PrefixToks(ex.question), T5MaxLength, FALSE)
    IN [input_ids |-> full.input_ids,
        offset_mapping |-> full.offset_mapping,
        extras_input_ids |-> extra.input_ids,
        sample |-> sample]

T5Tokenize(exs) == [k \in 1..Len(exs) |-> T5Feature(exs[k], k - 1)]

\* Python list indexing: s[i] for -len(s) <= i < len(s), IndexError otherwise.
PyInRange(s, i) == i >= -Len(s) /\ i < Len(s)

PyAt(s, i) == IF i >= 0 THEN s[i + 1] ELSE s[Len(s) + i + 1]

Err(e) == [exc |-> e, v |-> 0]

Ok(x) == [exc |-> "none", v |-> x]

\* input_ids.index(x): the first position holding x.
RECURSIVE ListIndex(_, _, _)
ListIndex(s, x, k) ==
    IF k >= Len(s) THEN Err("ValueError")
    ELSE IF s[k + 1] = x THEN Ok(k) ELSE ListIndex(s, x, k + 1)

\* while sequence_ids[k] != ctx: k += step
RECURSIVE SeekContext(_, _, _, _)
SeekContext(sequence_ids, k, ctx, step) ==
    IF ~PyInRange(sequence_ids, k) THEN Err("IndexError")
    ELSE IF PyAt(sequence_ids, k) # ctx
    THEN SeekContext(sequence_ids, k + step, ctx, step)
    ELSE Ok(k)

\* while input_ids[k] == pad_token_id or input_ids[k] == eos_token_id: k -= 1
RECURSIVE SkipPadEos(_, _)
SkipPadEos(input_ids, k) ==
    IF ~PyInRange(input_ids, k) THEN Err("IndexError")
    ELSE IF PyAt(input_ids, k) \in {T5Tokenizer.pad_token_id, T5Tokenizer.eos_token_id}
    THEN SkipPadEos(input_ids, k - 1)
    ELSE Ok(k)

\* A mutant of ScanStart: the loop's final index is handed on one too far.
RECURSIVE ScanStartOneFurther(_, _, _)
ScanStartOneFurther(offsets, k, start_char) ==
    IF k < Len(offsets) /\ PyAt(offsets, k)[1] <= start_char
    THEN ScanStartOneFurther(offsets, k + 1, start_char)
    ELSE k + 1

\* while token_start_index < len(offsets) and
\*       offsets[token_start_index][0] <= start_char: token_start_index += 1
RECURSIVE ScanStart(_, _, _)
ScanStart(offsets, k, start_char) ==
    IF k < Len(offsets) /\ PyAt(offsets, k)[1] <= start_char
    THEN ScanStart(offsets, k + 1, start_char)
    ELSE k

\* while offsets[token_end_index][1] >= end_char: token_end_index -= 1
RECURSIVE ScanEnd(_, _, _)
ScanEnd(offsets, k, end_char) ==
    IF ~PyInRange(offsets, k) THEN Err("IndexError")
    ELSE IF PyAt(offsets, k)[2] >= end_char THEN ScanEnd(offsets, k - 1, end_char)
    ELSE Ok(k)

Labels(s, e) == [exc |-> "none", start |-> s, end |-> e]

LabelErr(x) == [exc |-> x, start |-> 0, end |-> 0]

\* The span test and the two convergence loops both variants share: the labels
\* of a feature whose context runs from token_start_index to token_end_index.
SpanLabels(offsets, token_start_index, token_end_index, start_char, end_char, cls_index) ==
    IF ~PyInRange(offsets, token_start_index) \/ ~PyInRange(offsets, token_end_index)
    THEN LabelErr("IndexError")
    ELSE IF ~(/\ PyAt(offsets, token_start_index)[1] <= start_char
              /\ PyAt(offsets, token_end_index)[2] >= end_char)
    THEN Labels(cls_index, cls_index)
    ELSE LET s == ScanStart(offsets, token_start_index, start_char)
             e == ScanEnd(offsets, token_end_index, end_char)
         IN IF e.exc # "none" THEN LabelErr(e.exc)
            ELSE Labels(s - 1, e.v + 1)

\* The loop body of the encoder's prepare_train_features for feature f.
EncoderLabels(st, exs, f) ==
    LET cls == ListIndex(f.input_ids, BertTokenizer.cls_token_id, 0)
        answers == exs[f.sample + 1].answers
        ctx == IF st.pad_on_right THEN 1 ELSE 0
    IN IF cls.exc # "none" THEN LabelErr(cls.exc)
       ELSE IF Len(answers.answer_start) = 0 THEN Labels(cls.v, cls.v)
       ELSE LET start_char == answers.answer_start[1]
                end_char == start_char + answers.text[1]
                ts == SeekContext(f.sequence_ids, 0, ctx, 1)
                te == SeekContext(f.sequence_ids, Len(f.input_ids) - 1, ctx, -1)
            IN IF ts.exc # "none" THEN LabelErr(ts.exc)
               ELSE IF te.exc # "none" THEN LabelErr(te.exc)
               ELSE SpanLabels(f.offset_mapping, ts.v, te.v, start_char, end_char, cls.v)

\* The loop body of the T5 prepare_train_features for feature number i.
T5Labels(exs, f, i) ==
    LET additional_token_length == Max(Len(f.extras_input_ids) - 1, 0)
        additional_text_length == ExtraTextLength(exs[i + 1].question)
        cls_index == T5Tokenizer.eos_token_id
        answers == exs[i + 1].answers
    IN IF Len(answers.answer_start) = 0 THEN Labels(cls_index, cls_index)
       ELSE LET start_char == answers.answer_start[1] + additional_text_length
                end_char == start_char + answers.text[1] + 1
                te == SkipPadEos(f.input_ids, Len(f.input_ids) - 1)
            IN IF te.exc # "none" THEN LabelErr(te.exc)
               ELSE SpanLabels(f.offset_mapping, additional_token_length, te.v,
                               start_char, end_char, cls_index)

\* The labels of features 1..n, up to the first exception.
RECURSIVE LabelAll(_, _, _, _)
LabelAll(st, exs, fs, n) ==
    IF n = 0 THEN [exc |-> "none", start |-> <<>>, end |-> <<>>]
    ELSE LET before == LabelAll(st, exs, fs, n - 1)
             l == IF st.variant = "T5" THEN T5Labels(exs, fs[n], n - 1)
                  ELSE EncoderLabels(st, exs, fs[n])
         IN IF before.exc # "none" THEN before
            ELSE IF l.exc # "none" THEN [before EXCEPT !.exc = l.exc]
            ELSE [exc |-> "none",
                  start |-> Append(before.start, l.start),
                  end |-> Append(before.end, l.end)]

\* The examples: a question with or without leading whitespace, a context and
\* either no answer or one answer that starts and ends on characters of words.
AnswerSpans(n) ==
    {<<a, b>> \in (0..TextLen(n)) \X (0..TextLen(n)) :
        /\ a < b
        /\ \E i \in 0..(n - 1) : WordStart(i) <= a /\ a < WordEnd(i)
        /\ \E j \in 0..(n - 1) : WordStart(j) < b /\ b <= WordEnd(j)}

ExamplesOf(q, n) ==
    {[question |-> q, context |-> [nwords |-> n],
      answers |-> [answer_start |-> <<>>, text |-> <<>>]]}
    \cup {[question |-> q, context |-> [nwords |-> n],
           answers |-> [answer_start |-> <<sp[1]>>, text |-> <<sp[2] - sp[1]>>]] :
             sp \in AnswerSpans(n)}

QuestionSet == [lead : 0..1, nwords : 1..MaxQWords]

ExampleSet == UNION {ExamplesOf(q, n) : q \in QuestionSet, n \in 1..MaxCtxWords}

\* A second example of a batch: one word of context, which is the answer.
Filler ==
    [question |-> [lead |-> 0, nwords |-> 1], context |-> [nwords |-> 1],
     answers |-> [answer_start |-> <<0>>, text |-> <<WordLen>>]]

Batches == UNION {{<<e>>, <<e, Filler>>, <<Filler, e>>} : e \in ExampleSet}

EncoderSettings ==
    [variant : {"encoder"}, pad_on_right : BOOLEAN, is_roberta : BOOLEAN,
     max_seq_length : (MaxSeqLength - 1)..MaxSeqLength, doc_stride : 1..MaxStride]

T5Settings ==
    [variant : {"T5"}, pad_on_right : {TRUE}, is_roberta : {FALSE},
     max_seq_length : {T5MaxLength}, doc_stride : {0}]

\* The tokenizer accepts the batch: a context token fits beside every question
\* and the stride is shorter than the room left for the context.
Accepts(st, exs) ==
    st.variant = "encoder" =>
        \A k \in 1..Len(exs) : Capacity(st, exs[k].question) > st.doc_stride

PrepInit ==
    /\ setting \in EncoderSettings \cup T5Settings
    /\ examples \in Batches
    /\ Accepts(setting, examples)
    /\ features = <<>>
    /\ start_positions = <<>>
    /\ end_positions = <<>>
    /\ example_id = <<>>
    /\ prep_pc = "start"
    /\ prep_exc = "none"

Stripped(exs) == [k \in 1..Len(exs) |-> [exs[k] EXCEPT !.question = lstrip(@)]]

Finish(fs, r) ==
    /\ features' = fs
    /\ start_positions' = r.start
    /\ end_positions' = r.end
    /\ prep_exc' = r.exc
    /\ prep_pc' = IF r.exc = "none" THEN "done" ELSE "raised"

\* prepare_train_features_with_setting(...)(examples)
prepare_train_features ==
    /\ prep_pc = "start"
    /\ setting.variant = "encoder"
    /\ examples' = Stripped(examples)
    /\ LET fs == EncoderTokenize(setting, Stripped(examples), 0)
       IN Finish(fs, LabelAll(setting, Stripped(examples), fs, Len(fs)))
    /\ UNCHANGED <<setting, example_id, mainVars, retrVars, argVars>>

\* prepare_train_features_with_setting_for_T5(...)(examples)
prepare_train_features_for_T5 ==
    /\ prep_pc = "start"
    /\ setting.variant = "T5"
    /\ examples' = Stripped(examples)
    /\ LET fs == T5Tokenize(Stripped(examples))
       IN Finish(fs, LabelAll(setting, Stripped(examples), fs, Len(fs)))
    /\ UNCHANGED <<setting, example_id, mainVars, retrVars, argVars>>

\* examples["id"]: the id column of a batch.
Ids == <<"mrc-0-0", "mrc-0-1">>

\* An offset_mapping entry set to None.
NoOffset == <<>>

\* [(o if sequence_ids[k] == context_index else None) for k, o in enumerate(...)]
MaskBySequence(f, context_index) ==
    [f EXCEPT !.offset_mapping =
        [k \in 1..Len(f.offset_mapping) |->
            IF f.sequence_ids[k] = context_index THEN f.offset_mapping[k] ELSE NoOffset]]

\* tokenized_extras and tokenized_examples of the T5 validation sub-mode, which
\* truncates and pads to dataset_args.max_length.
T5ValidationFeature(st, ex, sample) ==
    LET full == T5Encode(T5PrefixToks(ex.question) \o T5ContextToks(ex.question, ex.context),
                         st.max_seq_length, TRUE)
        extra == T5Encode(T5PrefixToks(ex.question), st.max_seq_length, FALSE)
    IN [input_ids |-> full.input_ids,
        offset_mapping |-> full.offset_mapping,
        extras_input_ids |-> extra.input_ids,
        sample |-> sample]

\* additional_token_length of the T5 validation sub-mode.
ValidationTokenLength(f) == Len(f.extras_input_ids)

\* [(o if k >= additional_token_length else None) for k, o in enumerate(...)]
MaskByPosition(f, additional_token_length) ==
    [f EXCEPT !.offset_mapping =
        [k \in 1..Len(f.offset_mapping) |->
            IF k - 1 >= additional_token_length THEN f.offset_mapping[k] ELSE NoOffset]]

\* prepare_validation_features_with_setting(...)(examples)
prepare_validation_features ==
    /\ prep_pc = "start"
    /\ setting.variant = "encoder"
    /\ examples' = Stripped(examples)
    /\ LET fs == EncoderTokenize(setting, Stripped(examples), 0)
           context_index == IF setting.pad_on_right THEN 1 ELSE 0
       IN /\ features' = [i \in 1..Len(fs) |-> MaskBySequence(fs[i], context_index)]
          /\ example_id' = [i \in 1..Len(fs) |-> Ids[fs[i].sample + 1]]
    /\ prep_pc' = "validated"
    /\ UNCHANGED <<setting, start_positions, end_positions, prep_exc, mainVars, retrVars, argVars>>

\* prepare_validation_features_with_setting_for_T5(...)(examples)
prepare_validation_features_for_T5 ==
    /\ prep_pc = "start"
    /\ setting.variant = "T5"
    /\ examples' = Stripped(examples)
    /\ LET exs == Stripped(examples)
           fs == [i \in 1..Len(exs) |-> T5ValidationFeature(setting, exs[i], i - 1)]
       IN /\ features' = [i \in 1..Len(fs) |->
                             MaskByPosition(fs[i], ValidationTokenLength(fs[i]))]
          /\ example_id' = [i \in 1..Len(fs) |-> Ids[i]]
    /\ prep_pc' = "validated"
    /\ UNCHANGED <<setting, start_positions, end_positions, prep_exc, mainVars, retrVars, argVars>>

InitPreprocess == MainIdle /\ RetrIdle /\ PrepInit /\ ArgsIdle

NextPreprocess ==
    \/ prepare_train_features
    \/ prepare_train_features_for_T5
    \/ prepare_validation_features
    \/ prepare_validation_features_for_T5

SpecPreprocess == InitPreprocess /\ [][NextPreprocess]_vars

(***************************************************************************)
(* arguments.py                                                            *)
(*                                                                         *)
(* Five dataclasses.  A class body assigns each annotated name a value,    *)
(* and @dataclass derives the constructor from those values.               *)
(***************************************************************************)
PyInt(i) == [ty |-> "int", s |-> "", n |-> i]

PyBool(b) == [ty |-> "bool", s |-> IF b THEN "True" ELSE "False", n |-> 0]

PyNone == [ty |-> "NoneType", s |-> "None", n |-> 0]

\* A tuple of `len` elements, each a dataclasses.Field whose default is d.
PyTupleOfField(len, d) == [ty |-> "tuple", s |-> "Field", n |-> len, of |-> d]

\* dataclasses.MISSING: the default of a field declared without one.
MISSING == [ty |-> "MISSING", s |-> "", n |-> 0]

\* field(default=d, metadata=...): a dataclasses.Field object.
field(d) == [is_field |-> TRUE, default |-> d]

\* Any other expression on the right of an annotated name.
Value(v) == [is_field |-> FALSE, default |-> v]

Attr(name, value) == [name |-> name, value |-> value]

Classes ==
    {"ProjectArguments", "ModelArguments", "DataArguments",
     "EarlyStoppingArguments", "InferenceArguments"}

\* The class bodies.  topk is assigned "( field(default=5, ...), )": the comma
\* after the call makes the right-hand side a tuple holding the Field.
ClassBody(cls) ==
    CASE cls = "ProjectArguments" ->
            <<Attr("base_path", field(PyStr("/opt/ml/code/models"))),
              Attr("name", field(PyNone))>>
      [] cls = "ModelArguments" ->
            <<Attr("name_or_path", field(PyStr("klue/bert-base")))>>
      [] cls = "DataArguments" ->
            <<Attr("dataset_path", field(PyStr("/opt/ml/data/train_dataset"))),
              Attr("max_length", field(PyInt(512))),
              Attr("stride", field(PyInt(128))),
              Attr("max_answer_length", field(PyInt(32)))>>
      [] cls = "EarlyStoppingArguments" ->
            <<Attr("setting", field(PyBool(FALSE))),
              Attr("patience", field(PyInt(5)))>>
      [] cls = "InferenceArguments" ->
            <<Attr("topk", Value(PyTupleOfField(1, PyInt(5)))),
              Attr("output_dir", field(PyStr("/opt/ml/code/outputs/sample")))>>

FieldNames(cls) == {ClassBody(cls)[i].name : i \in 1..Len(ClassBody(cls))}

\* @dataclass: the default of a field is the Field's default when the class
\* attribute is a Field, and the class attribute itself otherwise.
DefaultOf(cls, name) ==
    LET a == CHOOSE x \in Range(ClassBody(cls)) : x.name = name
    IN a.value.default

\* The generated __init__(self, **kw): an unexpected keyword or a field
\* without default left out raises TypeError; every other field takes the
\* keyword's value or its default.
dataclass_init(cls, kw) ==
    IF (DOMAIN kw) \ FieldNames(cls) # {}
    THEN [exc |-> "TypeError", obj |-> <<>>]
    ELSE IF \E nm \in FieldNames(cls) \ DOMAIN kw : DefaultOf(cls, nm) = MISSING
    THEN [exc |-> "TypeError", obj |-> <<>>]
    ELSE [exc |-> "none",
          obj |-> [nm \in FieldNames(cls) |->
                      IF nm \in DOMAIN kw THEN kw[nm] ELSE DefaultOf(cls, nm)]]

\* Values given as overrides, and a keyword no class declares.
OverrideValues == {PyStr("exp"), PyInt(1)}

UnknownKeyword == "unknown"

Keywords(cls) == FieldNames(cls) \cup {UnknownKeyword}

Calls ==
    UNION {UNION {[cls : {c}, kwargs : [D -> OverrideValues]] : D \in SUBSET Keywords(c)} :
              c \in Classes}

ArgsInit ==
    /\ call \in Calls
    /\ instance = <<>>
    /\ args_pc = "start"
    /\ args_exc = "none"

\* cls(**kwargs)
construct ==
    /\ args_pc = "start"
    /\ LET r == dataclass_init(call.cls, call.kwargs)
       IN /\ instance' = r.obj
          /\ args_exc' = r.exc
    /\ args_pc' = "done"
    /\ UNCHANGED <<call, mainVars, retrVars, prepVars>>

InitArguments == MainIdle /\ RetrIdle /\ PrepIdle /\ ArgsInit

NextArguments == construct

SpecArguments == InitArguments /\ [][NextArguments]_vars

(***************************************************************************)
(* Claims about bm25_retrieval_base.py                                     *)
(***************************************************************************)
\* The index BM25Okapi builds over the instance's own corpus.
FreshIndex(obj) ==
    BM25Okapi([i \in 1..Len(obj.contexts) |-> tokenize_fn(obj.contexts[i])])

\* C3: a retrieve call (either form, any topk) made while self.bm25 is unset
\* raises the assertion error before anything is tokenized or scored, and
\* leaves contexts, ids and bm25 (still unset) as they were.
C3_RetrieveBeforeIndexFails ==
    (last.op = "retrieve" /\ ~last.pre.bm25.built) =>
        /\ ret.kind = "raise"
        /\ ret.exc = "AssertionError"
        /\ tokenized = <<>>
        /\ scored = 0
        /\ self = last.pre
        /\ self.bm25 = None

C3_Witness ==
    /\ last.op = "retrieve"
    /\ ~last.pre.bm25.built
    /\ last.q.form = "Dataset"
    /\ Len(last.q.dataset.rows) >= 1
    /\ last.topk >= 1
    /\ \E f \in PickleNames : files[f] # NoFile
    /\ ret.kind = "raise"

GseStep(f) == last'.op = "get_sparse_embedding" /\ last'.pickle_name = f

\* C4: get_sparse_embedding(F) loads the content of F when F exists, tokenizing
\* and writing nothing, whatever corpus is in memory; otherwise it tokenizes
\* every passage, builds the index over them and writes it to F.  Either way
\* the index is set and F exists afterwards, and F keeps its content until it
\* is deleted, so every later call with F loads.
C4_BuildOrLoad ==
    [][\A f \in PickleNames :
          /\ (GseStep(f) /\ files[f] # NoFile) =>
                 /\ self'.bm25 = files[f]
                 /\ tokenized' = <<>>
                 /\ files' = files
          /\ (GseStep(f) /\ files[f] = NoFile) =>
                 /\ tokenized' = self.contexts
                 /\ self'.bm25 = FreshIndex(self)
                 /\ files' = [files EXCEPT ![f] = FreshIndex(self)]
          /\ GseStep(f) =>
                 /\ self'.bm25.built
                 /\ files'[f] # NoFile
                 /\ self'.contexts = self.contexts
                 /\ self'.ids = self.ids
          /\ (files[f] # NoFile /\ last'.op # "delete") => files'[f] = files[f]
      ]_vars

\* A load of an index persisted for another corpus than the one in memory.
C4_Witness ==
    /\ last.op = "get_sparse_embedding"
    /\ tokenized = <<>>
    /\ self.bm25.built
    /\ self.bm25 = files[last.pickle_name]
    /\ self.bm25 # FreshIndex(self)

IsDescending(xs) == \A i \in 1..(Len(xs) - 1) : xs[i] >= xs[i + 1]

\* C5: with the index built over the corpus in memory, retrieve(q, k) for a
\* question string q and 1 <= k <= N returns (scores, texts): the k highest
\* scores in descending order and, at each position, a passage with that score.
C5_SingleQueryTopK ==
    (/\ last.op = "retrieve"
     /\ last.q.form = "str"
     /\ last.pre.bm25 = FreshIndex(last.pre)
     /\ last.topk \in 1..Len(last.pre.contexts)) =>
        /\ ret.kind = "return"
        /\ Len(ret.scores) = last.topk
        /\ Len(ret.texts) = last.topk
        /\ IsDescending(ret.scores)
        /\ LET all == get_scores(self.bm25, tokenize_fn(last.q.query))
           IN /\ \A i \in 1..last.topk :
                    \E p \in 1..Len(self.contexts) :
                        self.contexts[p] = ret.texts[i] /\ all[p] = ret.scores[i]
              /\ \A p \in 1..Len(self.contexts) :
                    \/ all[p] <= ret.scores[last.topk]
                    \/ \E i \in 1..last.topk : ret.texts[i] = self.contexts[p]

\* C6: with the index built over the corpus in memory, retrieve(dataset, topk)
\* for a labeled dataset of M examples returns M records in input order, each
\* with the example's question, id, answers and original_context, and a
\* context_id list of exactly topk integer passage ids in 0..N-1.
C6_BatchRecords ==
    (/\ last.op = "retrieve"
     /\ last.q.form = "Dataset"
     /\ last.q.dataset.labeled
     /\ last.pre.bm25 = FreshIndex(last.pre)
     /\ last.topk \in 1..Len(last.pre.contexts)) =>
        /\ ret.kind = "return"
        /\ Len(ret.rows) = Len(last.q.dataset.rows)
        /\ \A j \in 1..Len(ret.rows) :
              LET row == ret.rows[j]
                  ex == last.q.dataset.rows[j]
              IN /\ row.question = ex.question
                 /\ row.id = ex.id
                 /\ row.answers = ex.answers
                 /\ row.original_context = ex.context
                 /\ Len(row.context_id) = last.topk
                 /\ \A i \in 1..Len(row.context_id) :
                       /\ row.context_id[i].ty = "int"
                       /\ row.context_id[i].n \in 0..(Len(self.contexts) - 1)

\* The position at which text t first occurs in w.
FirstPos(w, t) == CHOOSE i \in 1..Len(w) : w[i] = t /\ \A j \in 1..(i - 1) : w[j] # t

\* C7: the corpus holds each distinct text of the JSON values exactly once, in
\* order of first appearance, and the ids are 0..N-1 with N the number of
\* distinct texts.
C7_CorpusDedup ==
    LET c == self.contexts IN
    /\ Range(c) = Range(wiki)
    /\ Len(c) = Cardinality(Range(wiki))
    /\ \A i, j \in 1..Len(c) :
          i < j => (c[i] # c[j] /\ FirstPos(wiki, c[i]) < FirstPos(wiki, c[j]))
    /\ DOMAIN self.ids = 1..Len(c)
    /\ \A i \in 1..Len(c) : self.ids[i] = i - 1

\* The same text under the first and the third key, another one between them.
C7_Witness ==
    /\ Len(wiki) = 3
    /\ wiki[1] = wiki[3]
    /\ wiki[1] # wiki[2]
    /\ self.contexts = <<wiki[1], wiki[2]>>
    /\ self.ids = <<0, 1>>

(***************************************************************************)
(* Claims about preprocess.py                                              *)
(***************************************************************************)
HasAnswer(ex) == Len(ex.answers.answer_start) > 0

\* The example feature number i (1-based) was labelled from.
ExampleOf(i) ==
    IF setting.variant = "T5" THEN examples[i] ELSE examples[features[i].sample + 1]

\* The character span [lo, hi) of the answer in the coordinates of the
\* feature's offsets: the context's own for the encoder; for T5 the prompt's,
\* from the whitespace before the answer on, as its tokenizer's offsets run.
AnswerSpan(ex) ==
    IF setting.variant = "T5"
    THEN [lo |-> ExtraTextLength(ex.question) + ex.answers.answer_start[1],
          hi |-> ExtraTextLength(ex.question) + 1 + ex.answers.answer_start[1]
                 + ex.answers.text[1]]
    ELSE [lo |-> ex.answers.answer_start[1],
          hi |-> ex.answers.answer_start[1] + ex.answers.text[1]]

\* The answer starts where a word starts and ends where a word ends.
Aligned(ex) ==
    LET a == ex.answers.answer_start[1]
        b == a + ex.answers.text[1]
    IN /\ \E w \in 0..(ex.context.nwords - 1) : a = WordStart(w)
       /\ \E w \in 0..(ex.context.nwords - 1) : b = WordEnd(w)

\* The 0-based positions of the context tokens of feature f.
ContextPositions(f) ==
    IF setting.variant = "T5"
    THEN {k \in 0..(Len(f.input_ids) - 1) :
             /\ k >= Len(f.extras_input_ids) - 1
             /\ f.input_ids[k + 1] \notin {T5Tokenizer.pad_token_id, T5Tokenizer.eos_token_id}}
    ELSE {k \in 0..(Len(f.input_ids) - 1) :
             f.sequence_ids[k + 1] = (IF setting.pad_on_right THEN 1 ELSE 0)}

SetMin(S) == CHOOSE x \in S : \A y \in S : x <= y

SetMax(S) == CHOOSE x \in S : \A y \in S : x >= y

\* The characters of the feature's context tokens take in the whole answer.
Contains(f, sp) ==
    LET cp == ContextPositions(f)
    IN /\ cp # {}
       /\ f.offset_mapping[SetMin(cp) + 1][1] <= sp.lo
       /\ f.offset_mapping[SetMax(cp) + 1][2] >= sp.hi

\* C8: every feature of a finished train call, of either variant, carries one
\* start and one end label, and both are token positions of the padded
\* feature: 0 <= label < len(input_ids).
C8_LabelsInRange ==
    (prep_pc \in {"done", "raised"}) =>
        /\ prep_exc = "none"
        /\ Len(start_positions) = Len(features)
        /\ Len(end_positions) = Len(features)
        /\ \A i \in 1..Len(features) :
              /\ start_positions[i] \in 0..(Len(features[i].input_ids) - 1)
              /\ end_positions[i] \in 0..(Len(features[i].input_ids) - 1)

\* An answer in the last context token: the start label is the last position.
C8_Witness ==
    /\ prep_pc = "done"
    /\ \E i \in 1..Len(features) :
          /\ HasAnswer(ExampleOf(i))
          /\ start_positions[i] = Len(features[i].input_ids) - 1
          /\ end_positions[i] \in ContextPositions(features[i])

\* C9: for a word-aligned answer fully inside the feature's context span the
\* labels are context tokens with start <= end, and the text from the start
\* token's offset start to the end token's offset end is exactly the answer.
\* Stated for tokenizers that pad on the right, as klue/bert-base and T5 do.
C9_LabelsReproduceAnswer ==
    (prep_pc = "done" /\ setting.pad_on_right) =>
        \A i \in 1..Len(features) :
            LET f == features[i]
                ex == ExampleOf(i)
            IN (HasAnswer(ex) /\ Aligned(ex) /\ Contains(f, AnswerSpan(ex))) =>
                   /\ start_positions[i] <= end_positions[i]
                   /\ start_positions[i] \in ContextPositions(f)
                   /\ end_positions[i] \in ContextPositions(f)
                   /\ f.offset_mapping[start_positions[i] + 1][1] = AnswerSpan(ex).lo
                   /\ f.offset_mapping[end_positions[i] + 1][2] = AnswerSpan(ex).hi

\* The labels are context tokens, in order, the first holding the answer's
\* first character and the last holding its last character.
Brackets(f, s, e, sp) ==
    /\ s <= e
    /\ s \in ContextPositions(f)
    /\ e \in ContextPositions(f)
    /\ f.offset_mapping[s + 1][1] <= sp.lo
    /\ sp.lo < f.offset_mapping[s + 1][2]
    /\ f.offset_mapping[e + 1][1] < sp.hi
    /\ sp.hi <= f.offset_mapping[e + 1][2]

\* The number of features cut from example number `sample` (0-based).
FeaturesOf(sample) == Cardinality({i \in 1..Len(features) : features[i].sample = sample})

\* C10: when an example with an answer yields several overlapping encoder
\* features, no error is raised, each feature whose context span does not take
\* in the whole answer is labelled with the position of the classifier token
\* twice, and each feature whose span does is labelled with other positions
\* that bracket the answer.  Stated for tokenizers that pad on the right.
C10_TruncatedAnswerFallback ==
    (/\ prep_pc \in {"done", "raised"}
     /\ setting.variant = "encoder"
     /\ setting.pad_on_right) =>
        /\ prep_exc = "none"
        /\ \A i \in 1..Len(features) :
              LET f == features[i]
                  ex == ExampleOf(i)
                  cls == ListIndex(f.input_ids, BertTokenizer.cls_token_id, 0).v
              IN (HasAnswer(ex) /\ FeaturesOf(f.sample) >= 2) =>
                     IF Contains(f, AnswerSpan(ex))
                     THEN /\ start_positions[i] # cls
                          /\ end_positions[i] # cls
                          /\ Brackets(f, start_positions[i], end_positions[i], AnswerSpan(ex))
                     ELSE /\ start_positions[i] = cls
                          /\ end_positions[i] = cls

\* The position in the feature's input_ids of the token that stands for "no
\* answer": the classifier token of the encoder, the end-of-sequence token that
\* closes the prompt of the sequence-to-sequence variant.
FallbackPosition(f) ==
    IF setting.variant = "T5"
    THEN ListIndex(f.input_ids, T5Tokenizer.eos_token_id, 0).v
    ELSE ListIndex(f.input_ids, BertTokenizer.cls_token_id, 0).v

\* C11: every feature derived from an example whose answer_start list is empty
\* is labelled, without an error, with start_positions = end_positions = the
\* fallback index: the position of the classifier token in the feature's
\* input_ids (encoder) or the position of the end-of-sequence token (T5).
C11_AnswerAbsentFallback ==
    (prep_pc \in {"done", "raised"} /\ setting.variant \in {"encoder", "T5"}) =>
        \A i \in 1..Len(features) :
            (~HasAnswer(ExampleOf(i))) =>
                /\ prep_exc = "none"
                /\ start_positions[i] = FallbackPosition(features[i])
                /\ end_positions[i] = FallbackPosition(features[i])

\* The offsets the tokenizer gave feature number i (1-based) of a validation
\* call, before any entry was replaced.
TokenizerOffsets(i) ==
    IF setting.variant = "T5"
    THEN T5ValidationFeature(setting, examples[i], i - 1).offset_mapping
    ELSE EncoderTokenize(setting, examples, 0)[i].offset_mapping

\* The index at which the T5 train sub-mode starts its context token search.
TrainStartIndex(f) == Max(Len(f.extras_input_ids) - 1, 0)

\* C12: in every feature of a finished validation call, of either variant, the
\* offset-mapping entry of every non-context token (question, prompt, special
\* and padding tokens) is the absent marker and the entry of every context
\* token is the (start, end) pair the tokenizer gave it; in the T5 variant the
\* entries kept begin exactly at the index from which the train sub-mode starts
\* its context token search.
C12_ValidationOffsetMasking ==
    (prep_pc = "validated") =>
        \A i \in 1..Len(features) :
            LET f == features[i]
                kept == {k \in 0..(Len(f.input_ids) - 1) : f.offset_mapping[k + 1] # NoOffset}
            IN /\ \A k \in 0..(Len(f.input_ids) - 1) :
                      IF k \in ContextPositions(f)
                      THEN f.offset_mapping[k + 1] = TokenizerOffsets(i)[k + 1]
                      ELSE f.offset_mapping[k + 1] = NoOffset
               /\ (setting.variant = "T5" /\ kept # {}) => SetMin(kept) = TrainStartIndex(f)

(***************************************************************************)
(* Claims about arguments.py                                               *)
(***************************************************************************)
NoOverrides == DOMAIN call.kwargs = {}

\* C13: constructing a configuration group with no overrides yields the
\* literal defaults: Data.max_length = 512, Data.stride = 128,
\* Data.max_answer_length = 32, EarlyStopping.setting = false,
\* EarlyStopping.patience = 5, Inference.topk = the integer 5,
\* Model.name_or_path = "klue/bert-base"; and constructing the Project group
\* without a name fails with a MissingConfiguration error.
C13_ConfigurationDefaults ==
    (args_pc = "done" /\ NoOverrides) =>
        CASE call.cls = "ProjectArguments" ->
                args_exc = "MissingConfiguration"
          [] call.cls = "ModelArguments" ->
                /\ args_exc = "none"
                /\ instance["name_or_path"] = PyStr("klue/bert-base")
          [] call.cls = "DataArguments" ->
                /\ args_exc = "none"
                /\ instance["max_length"] = PyInt(512)
                /\ instance["stride"] = PyInt(128)
                /\ instance["max_answer_length"] = PyInt(32)
          [] call.cls = "EarlyStoppingArguments" ->
                /\ args_exc = "none"
                /\ instance["setting"] = PyBool(FALSE)
                /\ instance["patience"] = PyInt(5)
          [] call.cls = "InferenceArguments" ->
                /\ args_exc = "none"
                /\ instance["topk"] = PyInt(5)

(***************************************************************************)
(* Claims about main.py                                                    *)
(***************************************************************************)
ExpectedCalls(c) ==
    CASE c.mode = "model_train" ->
            <<[routine |-> "train", args |-> <<c.project, c.model, c.data, c.train>>]>>
      [] c.mode = "hyperparameter_tune" ->
            <<[routine |-> "hp_optimizing", args |-> <<c.project, c.model, c.data, c.hp>>]>>
      [] c.mode = "inference" ->
            <<[routine |-> "inference", args |-> <<c.model, c.data>>]>>
      [] c.mode = "retrieval_train" -> <<>>

\* C1: for each of the four recognized modes a finished run of the entry point
\* has invoked exactly the corresponding routine with exactly its configuration
\* groups; retrieval_train only prints the placeholder and invokes none of
\* train / hp_optimizing / inference (and no other mode prints it).
C1_DispatchExactlyOne ==
    (main_pc = "done" /\ cfg.mode \in RecognizedModes) =>
        /\ main_exc = "none"
        /\ calls = ExpectedCalls(cfg)
        /\ Len(calls) = (IF cfg.mode = "retrieval_train" THEN 0 ELSE 1)
        /\ (cfg.mode = "retrieval_train") <=>
               (\E i \in 1..Len(stdout) : stdout[i].line = Placeholder)

C1_Witness ==
    /\ main_pc = "done"
    /\ cfg.mode = "hyperparameter_tune"
    /\ Len(calls) = 1
    /\ calls[1].routine = "hp_optimizing"

\* C2: a run whose mode is none of the four recognized values fails with an
\* UnsupportedMode error; it never returns normally having invoked no routine.
C2_UnrecognizedModeFails ==
    (main_pc = "done" /\ cfg.mode \notin RecognizedModes) =>
        /\ main_exc = "UnsupportedMode"
        /\ ~(main_exc = "none" /\ calls = <<>>)

====
